---- MODULE Spec2Model ----
(***************************************************************************)
(* gen-closure.ts: the generator of Closure externs for Polymer mixins.    *)
(*                                                                         *)
(* The source file holds two variants of the generator:                    *)
(*   "returning"  lines 1-163: generateDeclarations returns the promise    *)
(*                of the output string;                                    *)
(*   "stdout"     lines 164-303: generatePackage writes the output to the  *)
(*                process's standard output, and only mixins of the        *)
(*                namespace Polymer are emitted.                           *)
(*                                                                         *)
(* Text is a sequence of atoms (TLA+ strings): the pieces a string is      *)
(* built from.  Concatenation is \o, so two texts are equal exactly when   *)
(* the strings are.  A JavaScript value that may be undefined is a         *)
(* sequence of length 0 (undefined) or 1 (the value).                      *)
(***************************************************************************)
EXTENDS Integers, Sequences, FiniteSets, TLC

VARIABLES
  variant,       \* which of the two variants of the source runs
  pc,            \* where the run of generateDeclarations stands
  pkg,           \* the features of the analysis the analyzer resolved with
  reason,        \* the error the analyzer rejected with
  declarations,  \* generatePackage's local list of text blocks
  returned,      \* what the caller of generateDeclarations holds
  stdout,        \* the texts written to process.stdout, in order
  unhandled,     \* rejections of promises nobody handles
  runs,          \* how many times generatePackage has run
  call,          \* a direct call of one function: its name and arguments
  ret            \* <<>> while the call is pending, then <<its result>>

vars == <<variant, pc, pkg, reason, declarations, returned, stdout, unhandled,
          runs, call, ret>>

pipelineVars == <<variant, pc, pkg, reason, declarations, returned, stdout,
                  unhandled, runs>>

\* ------------------------------------------------------------------ bounds

MaxPathLen == 4
MaxFeatures == 2
MaxParents == 2
MaxProps == 2
MaxMethods == 2
MaxParams == 2

\* ----------------------------------------------------------------- helpers

SeqsUpTo(S, n) == UNION {[1..k -> S] : k \in 0..n}

Variants == {"returning", "stdout"}

NL == "\n"

\* Array.prototype.join: the parts with sep between consecutive ones.
RECURSIVE Join(_, _)
Join(parts, sep) ==
  IF parts = <<>> THEN <<>>
  ELSE IF Len(parts) = 1 THEN parts[1]
  ELSE parts[1] \o sep \o Join(Tail(parts), sep)

\* The maximal runs of atoms of text between atoms of seps, from the atom
\* at start on.
RECURSIVE SplitFrom(_, _, _)
SplitFrom(text, seps, start) ==
  IF \A i \in start..Len(text) : text[i] \notin seps
  THEN <<SubSeq(text, start, Len(text))>>
  ELSE LET i == CHOOSE k \in start..Len(text) :
                  /\ text[k] \in seps
                  /\ \A j \in start..(k - 1) : text[j] \notin seps
       IN  <<SubSeq(text, start, i - 1)>> \o SplitFrom(text, seps, i + 1)

Split(text, seps) == SplitFrom(text, seps, 1)

\* The lines of a text.
Lines(text) == Split(text, {NL})

\* `${x}` in a template literal: undefined is spelled out.
Interp(opt) == IF opt = <<>> THEN <<"undefined">> ELSE opt[1]

\* ------------------------------------------------------------------ isTest

Separators == {"/", "\\"}

\* The atoms of a path.  Those made of word characters ([A-Za-z0-9_]):
WordAtoms == {"test", "s", "Test", "x"}
PathAtoms == WordAtoms \cup Separators \cup {"-"}

\* \b before position i (1-based) of a path: exactly one of the characters
\* on its two sides is a word character.
WordBoundary(path, i) ==
  LET before == i > 1 /\ i - 1 <= Len(path) /\ path[i - 1] \in WordAtoms
      after  == i >= 1 /\ i <= Len(path) /\ path[i] \in WordAtoms
  IN  before # after

\* (\b|\/|\\)(test[s]?)(\/|\\) matched with its first character at i.
MatchesAt(path, i) ==
  \E pre \in {0, 1} : \E opt \in {0, 1} :
    LET t == i + pre
        e == t + 1 + opt
    IN  /\ IF pre = 0 THEN WordBoundary(path, i)
                      ELSE i <= Len(path) /\ path[i] \in Separators
        /\ t <= Len(path) /\ path[t] = "test"
        /\ opt = 1 => (t + 1 <= Len(path) /\ path[t + 1] = "s")
        /\ e <= Len(path) /\ path[e] \in Separators

\* A regex without its first group, (test[s]?)(\/|\\): a mutant of the code.
RegexTestWithoutPrefixGroup(path) ==
  \E i \in 1..Len(path) : \E opt \in {0, 1} :
    /\ path[i] = "test"
    /\ opt = 1 => (i + 1 <= Len(path) /\ path[i + 1] = "s")
    /\ i + 1 + opt <= Len(path) /\ path[i + 1 + opt] \in Separators

\* isInTestsRegex.test(path)
isInTestsRegexTest(path) == \E i \in 1..(Len(path) + 1) : MatchesAt(path, i)

\* f.sourceRange && isInTestsRegex.test(f.sourceRange.file), as the value
\* JavaScript yields: "undefined", "true" or "false".
isTest(f) ==
  IF f.sourceRange = <<>> THEN "undefined"
  ELSE IF isInTestsRegexTest(f.sourceRange[1].file) THEN "true" ELSE "false"

Truthy(v) == v = "true"

\* ------------------------------------------------------ the generator

\* The template literal `header`: it starts and ends with a line break.
header(v) ==
  <<NL, "/**", NL, " * @fileoverview Closure types for Polymer mixins", NL,
    " * @externs", NL, " *", NL,
    " * This file is generated, do not edit manually", NL, " */", NL,
    IF v = "returning" THEN "/* eslint-disable no-unused-vars, strict */"
                       ELSE "/* eslint-disable no-unused-vars */",
    NL>>

\* name.lastIndexOf(a), 1-based; 0 where JavaScript gives -1.
LastIndexOf(name, a) ==
  IF \E i \in 1..Len(name) : name[i] = a
  THEN CHOOSE i \in 1..Len(name) :
         name[i] = a /\ \A j \in (i + 1)..Len(name) : name[j] # a
  ELSE 0

\* getNamespaceAndName: {name, namespace}, namespace undefined without a dot.
\* The stdout variant prefixes the name after the dot with 'Polymer_'.
getNamespaceAndName(v, name) ==
  LET lastDotIndex == LastIndexOf(name, ".")
  IN  IF lastDotIndex # 0
      THEN [name |-> <<(IF v = "stdout" THEN <<"Polymer", "_">> ELSE <<>>)
                        \o SubSeq(name, lastDotIndex + 1, Len(name))>>,
            namespace |-> <<SubSeq(name, 1, lastDotIndex - 1)>>]
      ELSE [name |-> <<name>>, namespace |-> <<>>]

\* The name genMixinDeclaration declares a mixin under:
\* `${namespace}_${name}` (returning), name (stdout).
mixinNameOf(v, identifier) ==
  LET nn == getNamespaceAndName(v, identifier)
  IN  IF v = "returning" THEN Interp(nn.namespace) \o <<"_">> \o Interp(nn.name)
                         ELSE Interp(nn.name)

\* A parent annotation that names the text after the last dot alone: a
\* mutant of the code.
parentAnnotationOfBareName(v, m) ==
  LET d == LastIndexOf(m.identifier, ".")
  IN  <<IF v = "returning" THEN "* @extends {" ELSE "* @implements {">>
        \o SubSeq(m.identifier, d + 1, Len(m.identifier)) \o <<"}">>

\* The line genMixinDeclaration pushes for one parent mixin m.
parentAnnotation(v, m) ==
  LET nn == getNamespaceAndName(v, m.identifier)
  IN  IF v = "returning"
      THEN <<"* @extends {">> \o Interp(nn.namespace) \o <<"_">> \o Interp(nn.name)
             \o <<"}">>
      ELSE <<"* @implements {">> \o Interp(nn.name) \o <<"}">>

\* genProperty without its test of inheritedFrom: a mutant of the code.
genPropertyOfInherited(v, mixinName, property) ==
  IF property.privacy = "private"
  THEN <<>>
  ELSE <<<<"/** @type {">> \o Interp(property.type) \o <<"} */", NL>>
         \o mixinName \o <<".prototype.">> \o property.name \o <<";", NL>>>>

\* genProperty: <<>> for the bare `return`, else <<the text>>.
genProperty(v, mixinName, property) ==
  IF property.privacy = "private" \/ property.inheritedFrom # <<>>
  THEN <<>>
  ELSE <<<<"/** @type {">> \o Interp(property.type) \o <<"} */", NL>>
         \o mixinName \o <<".prototype.">> \o property.name \o <<";", NL>>>>

\* cleanVarArgs: a name starting with '...' loses those three characters.
cleanVarArgs(name) ==
  IF Len(name) > 0 /\ name[1] = "..." THEN Tail(name) ELSE name

\* The name genParameter and genMethod's stub print for a parameter:
\* cleaned in the returning variant, as it is in the stdout variant.
paramName(v, name) == IF v = "returning" THEN cleanVarArgs(name) ELSE name

\* genParameter: `* @param {${parameter.type || '*'}} ${name}`
genParameter(v, parameter) ==
  <<"* @param {">>
    \o (IF parameter.type = <<>> \/ parameter.type = <<<<>>>>
        THEN <<"*">> ELSE parameter.type[1])
    \o <<"} ">> \o paramName(v, parameter.name)

\* method.jsdoc && method.jsdoc.tags && tags.some(t => t.title === 'override')
hasOverrideTag(method) ==
  /\ method.jsdoc # <<>>
  /\ method.jsdoc[1].tags # <<>>
  /\ \E i \in 1..Len(method.jsdoc[1].tags[1]) :
       method.jsdoc[1].tags[1][i].title = "override"

\* genMethod skips a private method and, in the stdout variant, an inherited one.
methodSkipped(v, method) ==
  \/ method.privacy = "private"
  \/ v = "stdout" /\ method.inheritedFrom # <<>>

\* genMethod: <<>> for the bare `return`, else <<the text>>.
genMethod(v, mixinName, method) ==
  IF methodSkipped(v, method) THEN <<>>
  ELSE
    LET override == v = "returning" /\ hasOverrideTag(method)
        params == IF method.params = <<>> THEN <<>> ELSE method.params[1]
        returnType ==
          IF method.return = <<>> THEN <<>> ELSE method.return[1].type
        out ==
          <<<<"/**">>>>
            \o (IF override THEN <<<<"* @override">>>> ELSE <<>>)
            \o [i \in 1..Len(params) |-> genParameter(v, params[i])]
            \o (IF returnType # <<>> /\ returnType # <<<<>>>>
                THEN <<<<"* @return {">> \o returnType[1] \o <<"}">>>> ELSE <<>>)
            \o <<<<"*/">>>>
        paramText ==
          Join([i \in 1..Len(params) |-> paramName(v, params[i].name)], <<", ">>)
    IN  <<Join(out \o <<mixinName \o <<".prototype.">> \o method.name
                          \o <<" = function(">> \o paramText \o <<"){};">>>>,
               <<NL>>)>>

\* mixin.properties.forEach: the texts genProperty gives, the undefined ones
\* left out.
RECURSIVE propertyTexts(_, _, _)
propertyTexts(v, mixinName, properties) ==
  IF properties = <<>> THEN <<>>
  ELSE genProperty(v, mixinName, Head(properties))
         \o propertyTexts(v, mixinName, Tail(properties))

\* mixin.methods.forEach: the texts genMethod gives, the undefined ones left
\* out.
RECURSIVE methodTexts(_, _, _)
methodTexts(v, mixinName, methods) ==
  IF methods = <<>> THEN <<>>
  ELSE genMethod(v, mixinName, Head(methods))
         \o methodTexts(v, mixinName, Tail(methods))

\* The stdout variant returns before emitting anything for a mixin whose
\* namespace is not 'Polymer'.
mixinSkipped(v, mixin) ==
  v = "stdout" /\ getNamespaceAndName(v, mixin.name).namespace # <<<<"Polymer">>>>

\* genMixinDeclaration with the two member loops in the other order: a
\* mutant of the code.
genMixinDeclarationMethodsFirst(v, mixin, decls) ==
  IF mixinSkipped(v, mixin) THEN decls
  ELSE
    LET mixinName == mixinNameOf(v, mixin.name)
        mixinDesc ==
          <<<<"/**">>, <<"* @record">>>>
            \o [i \in 1..Len(mixin.mixins) |-> parentAnnotation(v, mixin.mixins[i])]
            \o <<<<"*/">>, <<"function ">> \o mixinName \o <<"(){}">>>>
            \o methodTexts(v, mixinName, mixin.methods)
            \o propertyTexts(v, mixinName, mixin.properties)
    IN  Append(decls, Join(mixinDesc, <<NL>>))

\* genMixinDeclaration(mixin, declarations): the declarations after the call.
genMixinDeclaration(v, mixin, decls) ==
  IF mixinSkipped(v, mixin) THEN decls
  ELSE
    LET mixinName == mixinNameOf(v, mixin.name)
        mixinDesc ==
          <<<<"/**">>, <<"* @record">>>>
            \o [i \in 1..Len(mixin.mixins) |-> parentAnnotation(v, mixin.mixins[i])]
            \o <<<<"*/">>, <<"function ">> \o mixinName \o <<"(){}">>>>
            \o propertyTexts(v, mixinName, mixin.properties)
            \o methodTexts(v, mixinName, mixin.methods)
    IN  Append(decls, Join(mixinDesc, <<NL>>))

\* generatePackage's test without isTest: a mutant of the code.
featureSelectedInTests(f) == "element-mixin" \in f.kinds

\* generatePackage's test of one feature: not a test, and an element-mixin.
featureSelected(f) == ~Truthy(isTest(f)) /\ "element-mixin" \in f.kinds

\* generatePackage's loop over the features, from the declarations so far.
RECURSIVE genFeatures(_, _, _)
genFeatures(v, features, decls) ==
  IF features = <<>> THEN decls
  ELSE genFeatures(v, Tail(features),
                   IF featureSelected(Head(features))
                   THEN genMixinDeclaration(v, Head(features), decls)
                   ELSE decls)

\* The declarations at the end of generatePackage.
generatedDeclarations(v, features) == genFeatures(v, features, <<header(v)>>)

\* --------------------------------------------- what the analyzer returns

\* The dotted identifiers of mixins: namespaced, bare, of another namespace,
\* and with a namespace that itself has a dot.
MixinNames ==
  {<<"Polymer", ".", "A">>, <<"A">>, <<"Ns", ".", "A">>,
   <<"Polymer", ".", "Ns", ".", "A">>}

\* Those without the last.
PlainMixinNames == {n \in MixinNames : Len(n) <= 3}

Feature(name, kinds, sourceRange, mixins, properties, methods) ==
  [name |-> name, kinds |-> kinds, sourceRange |-> sourceRange,
   mixins |-> mixins, properties |-> properties, methods |-> methods]

\* Features that differ in what generatePackage's loop tests.
SourceRanges ==
  {<<>>, <<[file |-> <<"x", "/", "x">>]>>, <<[file |-> <<"test", "/", "x">>]>>}

KindSets == {{"element-mixin", "polymer-element-mixin"}, {"element"}}

SelectionFeatures ==
  {Feature(n, k, r, <<>>, <<>>, <<>>) :
     n \in PlainMixinNames, k \in KindSets, r \in SourceRanges}

SelectionPackages == SeqsUpTo(SelectionFeatures, MaxFeatures)

\* A mixin with parents, alone or with a mixin that may be one of them.
ParentLists == SeqsUpTo({[identifier |-> n] : n \in MixinNames}, MaxParents)

ParentPackages ==
  LET children == {Feature(n, {"element-mixin"}, <<>>, ms, <<>>, <<>>) :
                     n \in MixinNames, ms \in ParentLists}
      others   == {Feature(n, {"element-mixin"}, <<>>, <<>>, <<>>, <<>>) :
                     n \in MixinNames}
  IN  {<<c>> : c \in children}
        \cup {<<c, o>> : c \in children, o \in others}
        \cup {<<o, c>> : c \in children, o \in others}

\* Members as genProperty and genMethod tell them apart: public, private,
\* inherited (and protected).  The i-th member of a list is named by its
\* place.
MemberFlavours ==
  {[privacy |-> "public", inheritedFrom |-> <<>>],
   [privacy |-> "private", inheritedFrom |-> <<>>],
   [privacy |-> "protected", inheritedFrom |-> <<<<"Base">>>>]}

PropertyAt(fl, i) ==
  [name |-> <<"p", ToString(i)>>, type |-> <<<<"string">>>>,
   privacy |-> fl.privacy, inheritedFrom |-> fl.inheritedFrom]

MethodAt(fl, i) ==
  [name |-> <<"m", ToString(i)>>,
   params |-> <<<<[name |-> <<"a">>, type |-> <<>>]>>>>,
   return |-> <<>>, jsdoc |-> <<>>,
   privacy |-> fl.privacy, inheritedFrom |-> fl.inheritedFrom]

\* A mixin with members, alone or beside a second mixin with members.
LayoutPackages ==
  LET mixins ==
        {Feature(<<"Polymer", ".", "A">>, {"element-mixin"}, <<>>, ms,
                 [i \in 1..Len(ps) |-> PropertyAt(ps[i], i)],
                 [i \in 1..Len(qs) |-> MethodAt(qs[i], i)]) :
           ms \in {<<>>, <<[identifier |-> <<"Polymer", ".", "B">>]>>},
           ps \in SeqsUpTo(MemberFlavours, MaxProps),
           qs \in SeqsUpTo(MemberFlavours, MaxMethods)}
      public == [privacy |-> "public", inheritedFrom |-> <<>>]
      other ==
        Feature(<<"Polymer", ".", "B">>, {"element-mixin"}, <<>>, <<>>,
                <<PropertyAt(public, 1)>>, <<MethodAt(public, 1)>>)
  IN  {<<m>> : m \in mixins} \cup {<<m, other>> : m \in mixins}
        \cup {<<other, m>> : m \in mixins}

Packages == SelectionPackages \cup ParentPackages \cup LayoutPackages

\* What analyzePackage may reject with.
Errors == {"ENOENT: no such package root", "SyntaxError in an analyzed source"}

\* -------------------------------------------- a run of generateDeclarations

NotCalled == [kind |-> "none", state |-> "-", value |-> <<>>, reason |-> "none"]

\* generateDeclarations(): the analyzer is made and analyzePackage() called.
\* The returning variant returns the promise then() derives; the stdout
\* variant drops it and returns undefined.
generateDeclarations ==
  /\ pc = "start"
  /\ pc' = "analyzing"
  /\ returned' = IF variant = "returning"
                 THEN [NotCalled EXCEPT !.kind = "promise", !.state = "pending"]
                 ELSE [NotCalled EXCEPT !.kind = "undefined"]
  /\ UNCHANGED <<variant, pkg, reason, declarations, stdout, unhandled, runs,
                 call, ret>>

\* The analyzer (outside this repository) resolves with an analysis.
analyzeResolves ==
  /\ pc = "analyzing"
  /\ \E p \in Packages : pkg' = p
  /\ pc' = "fulfilled"
  /\ UNCHANGED <<variant, reason, declarations, returned, stdout, unhandled,
                 runs, call, ret>>

\* The analyzer rejects.
analyzeRejects ==
  /\ pc = "analyzing"
  /\ \E e \in Errors : reason' = e
  /\ pc' = "rejected"
  /\ UNCHANGED <<variant, pkg, declarations, returned, stdout, unhandled,
                 runs, call, ret>>

\* then(generatePackage) on fulfilment: generatePackage(pkg) runs.  The
\* returning variant returns declarations.join('\n'), the value the derived
\* promise is fulfilled with; the stdout variant writes it.
generatePackage ==
  /\ pc = "fulfilled"
  /\ pc' = "done"
  /\ runs' = runs + 1
  /\ declarations' = generatedDeclarations(variant, pkg)
  /\ IF variant = "returning"
     THEN /\ returned' = [returned EXCEPT !.state = "fulfilled",
                                          !.value = Join(declarations', <<NL>>)]
          /\ UNCHANGED stdout
     ELSE /\ stdout' = Append(stdout, Join(declarations', <<NL>>))
          /\ UNCHANGED returned
  /\ UNCHANGED <<variant, pkg, reason, unhandled, call, ret>>

\* A then() with an onRejected that gives the empty string: a mutant of the
\* code.
rejectionSwallowed ==
  /\ pc = "rejected"
  /\ pc' = "failed"
  /\ returned' = IF variant = "returning"
                 THEN [returned EXCEPT !.state = "fulfilled"]
                 ELSE returned
  /\ UNCHANGED <<variant, pkg, reason, declarations, stdout, unhandled, runs,
                 call, ret>>

\* then(generatePackage) on rejection: there is no onRejected, so the derived
\* promise rejects with the same reason.  The caller holds it in the
\* returning variant; nobody holds it in the stdout variant.
rejectionPropagates ==
  /\ pc = "rejected"
  /\ pc' = "failed"
  /\ IF variant = "returning"
     THEN /\ returned' = [returned EXCEPT !.state = "rejected", !.reason = reason]
          /\ UNCHANGED unhandled
     ELSE /\ unhandled' = Append(unhandled, reason)
          /\ UNCHANGED returned
  /\ UNCHANGED <<variant, pkg, reason, declarations, stdout, runs, call, ret>>

Init ==
  /\ variant \in Variants
  /\ pc = "start"
  /\ pkg = <<>>
  /\ reason = "none"
  /\ declarations = <<>>
  /\ returned = NotCalled
  /\ stdout = <<>>
  /\ unhandled = <<>>
  /\ runs = 0
  /\ call = [fn |-> "none"]
  /\ ret = <<>>

Next ==
  \/ generateDeclarations
  \/ analyzeResolves
  \/ analyzeRejects
  \/ generatePackage
  \/ rejectionPropagates

Spec == Init /\ [][Next]_vars

\* ------------------------------------------- specification: isTest alone

NoPipeline ==
  /\ pc = "start"
  /\ pkg = <<>>
  /\ reason = "none"
  /\ declarations = <<>>
  /\ returned = NotCalled
  /\ stdout = <<>>
  /\ unhandled = <<>>
  /\ runs = 0

Paths == SeqsUpTo(PathAtoms, MaxPathLen)

\* A feature as far as isTest reads it.
PathFeatures ==
  {[sourceRange |-> <<>>]} \cup {[sourceRange |-> <<[file |-> p]>>] : p \in Paths}

InitIsTest ==
  /\ variant \in Variants
  /\ NoPipeline
  /\ call \in {[fn |-> "isTest", f |-> f] : f \in PathFeatures}
  /\ ret = <<>>

CallIsTest ==
  /\ call.fn = "isTest"
  /\ ret = <<>>
  /\ ret' = <<isTest(call.f)>>
  /\ UNCHANGED <<pipelineVars, call>>

NextIsTest == CallIsTest

SpecIsTest == InitIsTest /\ [][NextIsTest]_vars

\* ------------------------------------------------------------- claim C1

\* The segments of a path: the maximal runs of atoms between separators.
Segments(path) == Split(path, Separators)

HasTestSegment(path) ==
  \E k \in 1..Len(Segments(path)) :
    Segments(path)[k] \in {<<"test">>, <<"test", "s">>}

\* `test` or `tests` that a separator follows and that the start of the path
\* or a character that is no word character (a separator included) precedes.
HasTestDirectory(path) ==
  \E i \in 1..Len(path) :
    /\ path[i] = "test"
    /\ i > 1 => path[i - 1] \notin WordAtoms
    /\ \/ i + 1 <= Len(path) /\ path[i + 1] \in Separators
       \/ /\ i + 2 <= Len(path)
          /\ path[i + 1] = "s"
          /\ path[i + 2] \in Separators

IsTestReturned == call.fn = "isTest" /\ ret # <<>>

\* C1 as stated: isTest is true exactly for a feature whose path has a segment
\* that is exactly `test` or `tests`, the start and the end of the path
\* bounding a segment as a separator does.
C1_Original ==
  IsTestReturned =>
    (Truthy(ret[1]) <=>
       (call.f.sourceRange # <<>> /\ HasTestSegment(call.f.sourceRange[1].file)))

\* C1 amended: isTest is true exactly for a feature with a source range whose
\* path holds `test` or `tests` directly followed by a separator and preceded
\* by the start of the path or by a non-word character; with no source range
\* it is undefined, so not true.
C1_Amended ==
  IsTestReturned =>
    /\ Truthy(ret[1]) <=>
         (call.f.sourceRange # <<>> /\ HasTestDirectory(call.f.sourceRange[1].file))
    /\ call.f.sourceRange = <<>> => ret[1] = "undefined"

\* isTest has answered true for a path whose `tests` directory is not first.
C1_Witness ==
  /\ IsTestReturned
  /\ Truthy(ret[1])
  /\ \E i \in 2..Len(call.f.sourceRange[1].file) :
       /\ call.f.sourceRange[1].file[i] = "test"
       /\ call.f.sourceRange[1].file[i - 1] \in Separators

\* ------------------------- specification: genProperty and genMethod alone

Types == {<<>>, <<<<"string">>>>}

Properties ==
  {[name |-> <<"foo">>, type |-> t, privacy |-> pr, inheritedFrom |-> inh] :
     t \in Types, pr \in {"public", "private"}, inh \in {<<>>, <<<<"Base">>>>}}

Parameters ==
  {[name |-> n, type |-> t] : n \in {<<"a">>, <<"...", "items">>}, t \in Types}

\* method.jsdoc: undefined, without tags, or with some of the tags
\* override and param.
Jsdocs ==
  {<<>>, <<[tags |-> <<>>]>>}
    \cup {<<[tags |-> <<ts>>]>> :
            ts \in {<<>>, <<[title |-> "override"]>>, <<[title |-> "param"]>>,
                    <<[title |-> "override"], [title |-> "param"]>>,
                    <<[title |-> "param"], [title |-> "override"]>>}}

Methods ==
  {[name |-> <<"bar">>, params |-> ps, return |-> r, jsdoc |-> d,
    privacy |-> pr, inheritedFrom |-> inh] :
     ps \in {<<>>} \cup {<<l>> : l \in SeqsUpTo(Parameters, MaxParams)},
     r \in {<<>>} \cup {<<[type |-> t]>> : t \in Types},
     d \in Jsdocs,
     pr \in {"public", "private"}, inh \in {<<>>, <<<<"Base">>>>}}

InitMember ==
  /\ variant \in Variants
  /\ NoPipeline
  /\ call \in {[fn |-> "genProperty", member |-> m,
                mixinName |-> mixinNameOf(variant, <<"Polymer", ".", "A">>)] :
                 m \in Properties}
            \cup {[fn |-> "genMethod", member |-> m,
                   mixinName |-> mixinNameOf(variant, <<"Polymer", ".", "A">>)] :
                    m \in Methods}
  /\ ret = <<>>

callGenProperty ==
  /\ call.fn = "genProperty"
  /\ ret = <<>>
  /\ ret' = <<genProperty(variant, call.mixinName, call.member)>>
  /\ UNCHANGED <<pipelineVars, call>>

callGenMethod ==
  /\ call.fn = "genMethod"
  /\ ret = <<>>
  /\ ret' = <<genMethod(variant, call.mixinName, call.member)>>
  /\ UNCHANGED <<pipelineVars, call>>

NextMember == callGenProperty \/ callGenMethod

SpecMember == InitMember /\ [][NextMember]_vars

\* What a finished call of genMethod or genProperty gave.
MethodReturned == call.fn = "genMethod" /\ ret # <<>>
PropertyReturned == call.fn = "genProperty" /\ ret # <<>>
ReturnedLines == IF ret[1] = <<>> THEN <<>> ELSE Lines(ret[1][1])

HasTag(method, title) ==
  /\ method.jsdoc # <<>>
  /\ method.jsdoc[1].tags # <<>>
  /\ \E i \in 1..Len(method.jsdoc[1].tags[1]) :
       method.jsdoc[1].tags[1][i].title = title

IsParamLine(line) == Len(line) > 0 /\ line[1] = "* @param {"

\* ------------------------------------------------------------- claim C5

\* C5: for a method that is not private, has an override tag and no param
\* tag, the generated comment holds `* @override` and no `@param` line.
\* Stated of the returning variant, the one whose genMethod reads the tags.
C5_OverrideOmitsParams ==
  (/\ variant = "returning"
   /\ MethodReturned
   /\ call.member.privacy # "private"
   /\ HasTag(call.member, "override")
   /\ ~HasTag(call.member, "param"))
  => /\ \E i \in 1..Len(ReturnedLines) : ReturnedLines[i] = <<"* @override">>
     /\ \A i \in 1..Len(ReturnedLines) : ~IsParamLine(ReturnedLines[i])

\* ------------------------------------------------------------- claim C6

ParamsOf(method) == IF method.params = <<>> THEN <<>> ELSE method.params[1]

IsVariadic(name) == Len(name) > 0 /\ name[1] = "..."

Stripped(name) == IF IsVariadic(name) THEN Tail(name) ELSE name

\* The @param lines of the returned text, in order.
ReturnedParamLines == SelectSeq(ReturnedLines, IsParamLine)

\* C6: a parameter `...items` is `items` in the stub's parameter list and in
\* its @param line; with no declared type its @param type is `...*`, and `*`
\* for a parameter that is not variadic.  Stated of the returning variant,
\* the one that has cleanVarArgs.
C6_VariadicParameters ==
  (variant = "returning" /\ MethodReturned /\ ret[1] # <<>>)
  => LET ps == ParamsOf(call.member)
         stub == ReturnedLines[Len(ReturnedLines)]
     IN  /\ Len(ReturnedParamLines) = Len(ps)
         /\ \A i \in 1..Len(ps) :
              ps[i].type = <<>> =>
                ReturnedParamLines[i] =
                  <<"* @param {">>
                    \o (IF IsVariadic(ps[i].name) THEN <<"...", "*">> ELSE <<"*">>)
                    \o <<"} ">> \o Stripped(ps[i].name)
         /\ stub = call.mixinName \o <<".prototype.">> \o call.member.name
                     \o <<" = function(">>
                     \o Join([i \in 1..Len(ps) |-> Stripped(ps[i].name)], <<", ">>)
                     \o <<"){};">>

\* ------------------------------------------------------------- claim C7

\* The type a line `/** @type {T} */`, `* @param {T} x` or `* @return {T}`
\* names: the atoms after the opening one up to the closing one.
AnnotatedType(line) ==
  LET close == CHOOSE k \in 2..Len(line) :
                 /\ line[k] \in {"} */", "} ", "}"}
                 /\ \A j \in 2..(k - 1) : line[j] \notin {"} */", "} ", "}"}
  IN  SubSeq(line, 2, close - 1)

IsTypeLine(line) ==
  Len(line) > 0 /\ line[1] \in {"/** @type {", "* @param {", "* @return {"}

\* C7: missing metadata of a member gives a wildcard type or no annotation
\* line, never another placeholder: a property without a type is annotated
\* `*` or not at all, so is a parameter without a type, and a method without
\* a return type or a parameter list has no @return or @param line.
\* Stated of the returning variant.
C7_MissingMetadataDegrades ==
  variant = "returning" =>
  /\ (PropertyReturned /\ call.member.type = <<>>)
       => \A i \in 1..Len(ReturnedLines) :
            IsTypeLine(ReturnedLines[i]) => AnnotatedType(ReturnedLines[i]) = <<"*">>
  /\ MethodReturned
       => /\ \A i \in 1..Len(ReturnedParamLines) :
               ParamsOf(call.member)[i].type = <<>>
                 => AnnotatedType(ReturnedParamLines[i]) = <<"*">>
          /\ (call.member.return = <<>> \/ call.member.return[1].type = <<>>)
               => \A i \in 1..Len(ReturnedLines) :
                    Len(ReturnedLines[i]) > 0 => ReturnedLines[i][1] # "* @return {"
          /\ call.member.params = <<>>
               => \A i \in 1..Len(ReturnedLines) : ~IsParamLine(ReturnedLines[i])

\* --------------------------------------- reading the generated output

Done == pc = "done"

\* The output string of a finished run: what the returned promise is
\* fulfilled with, or what was written to standard output.
Output == IF variant = "returning" THEN returned.value ELSE stdout[1]

OutputLines == Lines(Output)

\* The features generatePackage emitted a block for, in order.
Emitted(f) == featureSelected(f) /\ ~mixinSkipped(variant, f)
EmittedFeatures == SelectSeq(pkg, Emitted)

\* The lines of the k-th block.
BlockLines(k) == Lines(declarations[k + 1])

IndexOf(line, a) == CHOOSE i \in 1..Len(line) : line[i] = a
Has(line, a) == \E i \in 1..Len(line) : line[i] = a

IsCtorLine(line) ==
  Len(line) >= 2 /\ line[1] = "function " /\ line[Len(line)] = "(){}"
CtorName(line) == SubSeq(line, 2, Len(line) - 1)

IsPropStub(line) == Len(line) > 0 /\ line[Len(line)] = ";" /\ Has(line, ".prototype.")
IsMethodStub(line) ==
  Len(line) > 0 /\ line[Len(line)] = "){};" /\ Has(line, ".prototype.")
IsStub(line) == IsPropStub(line) \/ IsMethodStub(line)
StubOwner(line) == SubSeq(line, 1, IndexOf(line, ".prototype.") - 1)
StubMember(line) ==
  SubSeq(line, IndexOf(line, ".prototype.") + 1,
         IF IsPropStub(line) THEN Len(line) - 1
                             ELSE IndexOf(line, " = function(") - 1)

IsTypeComment(line) == Len(line) > 0 /\ line[1] = "/** @type {"

IsParentAnnotation(line) ==
  Len(line) >= 2 /\ line[1] \in {"* @extends {", "* @implements {"}
    /\ line[Len(line)] = "}"
ParentAnnotationName(line) == SubSeq(line, 2, Len(line) - 1)

\* The name the ctor line of the k-th block declares.
DeclaredName(k) ==
  LET ls == BlockLines(k)
  IN  CtorName(ls[CHOOSE i \in 1..Len(ls) : IsCtorLine(ls[i])])

\* ------------------------------------------------------------- claim C2

\* The namespace of an identifier is exactly Polymer.
HasPolymerNamespace(id) ==
  /\ Len(id) >= 2
  /\ id[1] = "Polymer"
  /\ id[2] = "."
  /\ \A j \in 3..Len(id) : id[j] # "."

C2_Claimed(f) == "element-mixin" \in f.kinds /\ ~Truthy(isTest(f))

C2_ClaimedOfVariant(f) ==
  C2_Claimed(f) /\ (variant = "stdout" => HasPolymerNamespace(f.name))

\* The blocks are those of the features of sel, one each, in order.
C2_BlocksAre(sel) ==
  /\ Len(declarations) = 1 + Len(sel)
  /\ declarations[1] = header(variant)
  /\ \A k \in 1..Len(sel) :
       LET ls == BlockLines(k)
       IN  /\ SubSeq(ls, 1, 2) = <<<<"/**">>, <<"* @record">>>>
           /\ \E i \in 1..Len(ls) :
                /\ IsCtorLine(ls[i])
                /\ CtorName(ls[i]) = mixinNameOf(variant, sel[k].name)
                /\ \A j \in 1..Len(ls) : IsCtorLine(ls[j]) => j = i

\* C2 as stated: generatePackage emits a block for exactly the features that
\* are element-mixins and no tests, one block each, in the analyzer's order,
\* a feature returned twice giving two blocks.
C2_Original == Done => C2_BlocksAre(SelectSeq(pkg, C2_Claimed))

\* C2 amended: exactly the features that are element-mixins and no tests
\* and, in the stdout variant, whose namespace is exactly Polymer.
C2_Amended == Done => C2_BlocksAre(SelectSeq(pkg, C2_ClaimedOfVariant))

\* The analyzer returned the same mixin twice, and a run emitted two blocks.
C2_Witness ==
  /\ Done
  /\ Len(pkg) = 2
  /\ pkg[1] = pkg[2]
  /\ Len(declarations) = 3

\* ------------------------------------------------------------- claim C3

\* N_M for N.M, split at the last dot; M for a bare M.
C3_CombinedName(id) ==
  LET d == LastIndexOf(id, ".")
  IN  IF d = 0 THEN id
      ELSE SubSeq(id, 1, d - 1) \o <<"_">> \o SubSeq(id, d + 1, Len(id))

\* C3: the name a block declares, and every stub of the block is scoped to,
\* is N_M for a mixin N.M and M for a bare M.  Stated of the returning
\* variant.
C3_CombinedTypeName ==
  (Done /\ variant = "returning") =>
    \A k \in 1..Len(EmittedFeatures) :
      LET ls == BlockLines(k)
          expected == C3_CombinedName(EmittedFeatures[k].name)
      IN  \A i \in 1..Len(ls) :
            /\ IsCtorLine(ls[i]) => CtorName(ls[i]) = expected
            /\ IsStub(ls[i]) => StubOwner(ls[i]) = expected

\* ------------------------------------------------------------- claim C4

StubMembers(ls, IsKind(_)) ==
  {StubMember(ls[i]) : i \in {j \in 1..Len(ls) : IsKind(ls[j])}}

CountLines(ls, IsKind(_)) == Cardinality({j \in 1..Len(ls) : IsKind(ls[j])})

\* C4: in a block, the properties with a `@type` comment and a stub are those
\* neither private nor inherited; the methods with a stub are those not
\* private and, in the stdout variant, not inherited.  Each has one stub.
C4_VisibleMembersOnly ==
  Done =>
    \A k \in 1..Len(EmittedFeatures) :
      LET f == EmittedFeatures[k]
          ls == BlockLines(k)
          props == {i \in 1..Len(f.properties) :
                      /\ f.properties[i].privacy # "private"
                      /\ f.properties[i].inheritedFrom = <<>>}
          meths == {i \in 1..Len(f.methods) :
                      /\ f.methods[i].privacy # "private"
                      /\ variant = "stdout" => f.methods[i].inheritedFrom = <<>>}
      IN  /\ StubMembers(ls, IsPropStub) = {f.properties[i].name : i \in props}
          /\ CountLines(ls, IsPropStub) = Cardinality(props)
          /\ CountLines(ls, IsTypeComment) = Cardinality(props)
          /\ StubMembers(ls, IsMethodStub) = {f.methods[i].name : i \in meths}
          /\ CountLines(ls, IsMethodStub) = Cardinality(meths)

\* A block was emitted for a mixin with a private and a visible property and
\* with an inherited method.
C4_Witness ==
  /\ Done
  /\ \E k \in 1..Len(EmittedFeatures) :
       LET f == EmittedFeatures[k]
       IN  /\ \E i \in 1..Len(f.properties) : f.properties[i].privacy = "private"
           /\ \E i \in 1..Len(f.properties) :
                /\ f.properties[i].privacy = "public"
                /\ f.properties[i].inheritedFrom = <<>>
           /\ \E i \in 1..Len(f.methods) : f.methods[i].inheritedFrom # <<>>

\* ------------------------------------------------------------- claim C8

StartsWithHeader(text) ==
  Len(text) >= Len(header(variant))
    /\ SubSeq(text, 1, Len(header(variant))) = header(variant)

\* A run has two outcomes: generatePackage has run, once, exactly when the
\* run is done, and a rejection has arrived exactly when it has failed.
C8_TwoOutcomes ==
  /\ runs = (IF Done THEN 1 ELSE 0)
  /\ (returned.state = "rejected" \/ unhandled # <<>>) <=> pc = "failed"

\* After a fulfilled analysis the output string is produced: returned, or
\* written to standard output once.
C8_Success ==
  Done =>
    /\ unhandled = <<>>
    /\ IF variant = "returning"
       THEN /\ returned.kind = "promise" /\ returned.state = "fulfilled"
            /\ StartsWithHeader(returned.value)
            /\ stdout = <<>>
       ELSE /\ returned.kind = "undefined"
            /\ Len(stdout) = 1
            /\ StartsWithHeader(stdout[1])

\* Without a fulfilled analysis there is no output.
C8_NoOutputOtherwise ==
  ~Done => stdout = <<>> /\ returned.state # "fulfilled" /\ declarations = <<>>

\* The caller of generateDeclarations gets the analyzer's failure unchanged.
C8_CallerGetsFailure ==
  /\ returned.kind = "promise"
  /\ returned.state = "rejected"
  /\ returned.reason = reason
  /\ reason \in Errors

\* C8 as stated: two outcomes; the output is produced once if the analysis
\* succeeds; if it fails there is no output and the caller of
\* generateDeclarations gets the analyzer's failure unchanged.
C8_Original ==
  /\ C8_TwoOutcomes
  /\ C8_Success
  /\ C8_NoOutputOtherwise
  /\ pc = "failed" => C8_CallerGetsFailure

\* C8 amended: if the analysis fails, the returning variant's caller gets
\* the failure unchanged as the rejection of the returned promise; the stdout
\* variant has returned undefined to its caller, and the failure, unchanged,
\* is the rejection of a promise nobody holds.
C8_Amended ==
  /\ C8_TwoOutcomes
  /\ C8_Success
  /\ C8_NoOutputOtherwise
  /\ pc = "failed" =>
       IF variant = "returning"
       THEN C8_CallerGetsFailure /\ unhandled = <<>>
       ELSE /\ returned.kind = "undefined"
            /\ unhandled = <<reason>>
            /\ reason \in Errors

\* The analysis failed in the stdout variant.
C8_Witness == pc = "failed" /\ variant = "stdout" /\ unhandled # <<>>

\* ------------------------------------------------------------- claim C9

\* C9: a block has one inheritance annotation per parent of its mixin, in
\* the order of mixin.mixins, after `* @record` and before the comment's end;
\* the name it gives is the parent's combined name, the one the parent's own
\* block declares wherever that block is emitted.
C9_ParentAnnotations ==
  Done =>
    \A k \in 1..Len(EmittedFeatures) :
      LET f == EmittedFeatures[k]
          ls == BlockLines(k)
          n == Len(f.mixins)
      IN  /\ CountLines(ls, IsParentAnnotation) = n
          /\ ls[3 + n] = <<"*/">>
          /\ \A i \in 1..n :
               /\ IsParentAnnotation(ls[2 + i])
               /\ ls[2 + i][1] = (IF variant = "returning" THEN "* @extends {"
                                                           ELSE "* @implements {")
               /\ ParentAnnotationName(ls[2 + i])
                    = mixinNameOf(variant, f.mixins[i].identifier)
               /\ \A j \in 1..Len(EmittedFeatures) :
                    EmittedFeatures[j].name = f.mixins[i].identifier
                      => ParentAnnotationName(ls[2 + i]) = DeclaredName(j)

\* A block was emitted for a mixin with two different parents, and one for
\* the first of them.
C9_Witness ==
  /\ Done
  /\ \E k, j \in 1..Len(EmittedFeatures) :
       /\ j # k
       /\ Len(EmittedFeatures[k].mixins) = 2
       /\ EmittedFeatures[k].mixins[1] # EmittedFeatures[k].mixins[2]
       /\ EmittedFeatures[j].name = EmittedFeatures[k].mixins[1].identifier

\* ------------------------------------------------------------ claim C10

\* How many blocks have their ctor line at or before line i of the output.
BlockAt(ls, i) == Cardinality({j \in 1..i : IsCtorLine(ls[j])})

IsBlockStart(ls, i) ==
  i + 1 <= Len(ls) /\ ls[i] = <<"/**">> /\ ls[i + 1] = <<"* @record">>

\* The place of the member named name in a list of members.
PlaceOf(members, name) == CHOOSE i \in 1..Len(members) : members[i].name = name

\* The order of the output: the header; then per emitted mixin, in order, the
\* record comment with the parent annotations, the ctor line, the property
\* stubs in the analyzer's order and then the method stubs in the analyzer's
\* order, each stub scoped to the name its block declares.
C10_Order ==
  LET ls == OutputLines
      blockOf == [i \in 1..Len(ls) |-> BlockAt(ls, i)]
      ctors == {i \in 1..Len(ls) : IsCtorLine(ls[i])}
      stubs == {i \in 1..Len(ls) : IsStub(ls[i])}
      annotations == {i \in 1..Len(ls) : IsParentAnnotation(ls[i])}
  IN  /\ StartsWithHeader(Output)
      /\ Cardinality(ctors) = Len(EmittedFeatures)
      /\ \A i \in ctors :
           /\ CtorName(ls[i]) = mixinNameOf(variant, EmittedFeatures[blockOf[i]].name)
           /\ \E n \in 0..(i - 4) :
                /\ ls[i - 1] = <<"*/">>
                /\ \A j \in 1..n : (i - 1 - j) \in annotations
                /\ IsBlockStart(ls, i - 3 - n)
      /\ \A i \in annotations :
           \E c \in ctors :
             /\ c >= i + 2
             /\ ls[c - 1] = <<"*/">>
             /\ \A j \in i..(c - 2) : j \in annotations
      /\ \A i \in stubs :
           \E c \in ctors :
             /\ c < i
             /\ blockOf[c] = blockOf[i]
             /\ StubOwner(ls[i]) = CtorName(ls[c])
      /\ \A i, j \in stubs :
           (i < j /\ blockOf[i] = blockOf[j]) =>
             LET f == EmittedFeatures[blockOf[i]]
             IN  /\ ~(IsMethodStub(ls[i]) /\ IsPropStub(ls[j]))
                 /\ (IsPropStub(ls[i]) /\ IsPropStub(ls[j])) =>
                      PlaceOf(f.properties, StubMember(ls[i]))
                        < PlaceOf(f.properties, StubMember(ls[j]))
                 /\ (IsMethodStub(ls[i]) /\ IsMethodStub(ls[j])) =>
                      PlaceOf(f.methods, StubMember(ls[i]))
                        < PlaceOf(f.methods, StubMember(ls[j]))

\* C10 as stated: that order, and a blank line before every block.
C10_Original ==
  Done =>
    /\ C10_Order
    /\ LET ls == OutputLines
       IN  \A i \in 1..Len(ls) :
             IsBlockStart(ls, i) => (i > 1 /\ ls[i - 1] = <<>>)

\* C10 amended: that order, the pieces joined by a single line break: a
\* blank line precedes a block exactly when the piece before it ends in a
\* line break of its own, which the header and a property stub do; otherwise
\* the block starts on the line after the ctor line or method stub before it.
C10_Amended ==
  Done =>
    /\ C10_Order
    /\ LET ls == OutputLines
       IN  \A i \in 1..Len(ls) :
             IsBlockStart(ls, i) =>
               /\ i > 2
               /\ IF ls[i - 1] = <<>>
                  THEN IsPropStub(ls[i - 2])
                         \/ (BlockAt(ls, i) = 0 /\ i - 1 = Len(Lines(header(variant))))
                  ELSE IsCtorLine(ls[i - 1]) \/ IsMethodStub(ls[i - 1])

\* Two blocks were emitted, the first with two property stubs and a method
\* stub, and no blank line between the blocks.
C10_Witness ==
  /\ Done
  /\ Len(EmittedFeatures) = 2
  /\ CountLines(BlockLines(1), IsPropStub) = 2
  /\ CountLines(BlockLines(1), IsMethodStub) >= 1
  /\ LET ls == OutputLines
     IN  \E i \in 2..Len(ls) : IsBlockStart(ls, i) /\ IsMethodStub(ls[i - 1])

====
